---------------------------- MODULE Spec2Model ----------------------------
(***************************************************************************)
(* InelNET blinds integration: the HTTP command client (InelNetClient in   *)
(* custom_components/inelnet/__init__.py) and the per-channel position     *)
(* estimator (InelNetCover in custom_components/inelnet/cover.py).         *)
(*                                                                         *)
(* Time is counted in hundredths of a second, so that every duration       *)
(* (distance / 100) * travel_time of the estimator is a whole number of    *)
(* time units: distance * travel_time, with travel_time in seconds.        *)
(* The program only ever uses differences of clock readings and relative   *)
(* delays, so the origin of time is kept at the present instant: the clock *)
(* reads Now, and the passing of d time units moves every stored time and  *)
(* every deadline back by d.                                               *)
(***************************************************************************)
EXTENDS Integers, Sequences, FiniteSets, TLC

VARIABLES
    devices,    \* the channels of the configured devices (hass.data)
    call,       \* the activation of InelNetClient.send_command
    probe,      \* the activation of InelNetClient.test_connection
    cover,      \* channel -> the state-tracking fields of its InelNetCover
    tasks,      \* the coroutines suspended at an await (HTTP send, sleep)
    timers,     \* the pending loop.call_later completions
    nintents,   \* number of intents issued so far
    last,       \* the step taken last: its operation, channel and intent, the
                \* client's answer, the command handed to the client, whether
                \* async_write_ha_state ran, whether the blind was moving before
    sensor,     \* the fields of InelNetConnectivitySensor
    config_entry,   \* the config entry: whether it exists, its CONF_DEVICES
    flow,       \* the config flow or options flow in progress
    hass        \* hass.data[DOMAIN], the entities added and the services
                \* registered, and the activations of async_setup_entry

vars == <<call, probe, devices, cover, tasks, timers, nintents, last, sensor,
          config_entry, flow, hass>>
clientVars == <<call, probe>>
coverVars == <<devices, cover, tasks, timers, nintents, last>>
platformVars == <<sensor, config_entry, flow, hass>>

---------------------------------------------------------------------------
(* Bounds of the model *)

MaxRetries == 3
MaxIntents == 2
MaxHttpSteps == 1
MaxProbes == 8
MaxDevices == 4

---------------------------------------------------------------------------
(* const.py and the class constants of InelNetClient *)

ACTION_UP == 160
ACTION_UP_SHORT == 176
ACTION_STOP == 144
ACTION_DOWN == 192
ACTION_DOWN_SHORT == 208
DEFAULT_RETRIES == 2
\* retry_delay: float = 0.8, in time units of 1/100 s
DEFAULT_RETRY_DELAY == 80

\* What the request of one HTTP attempt can end in: a response with a status,
\* or an exception raised inside the "async with" (aiohttp.ClientError, or the
\* TimeoutError of asyncio.timeout(DEFAULT_TIMEOUT)).  "http200_late" is a
\* status 200 that arrives with less than retry_delay left of the timeout.
Responses == {"http200", "http200_late", "http404", "http500"}
Exceptions == {"network_error", "timeout"}
Outcomes == Responses \cup Exceptions

\* response.status == 200
StatusIs200(o) == o \in {"http200", "http200_late"}

\* The sleep that follows a status 200 runs inside the "async with
\* asyncio.timeout(DEFAULT_TIMEOUT)" block of the attempt: after a late
\* response the timeout expires during it and raises TimeoutError.
TimeoutDuringSleep(o) == o = "http200_late"

\* As if the clause were "except aiohttp.ClientError": a timeout escapes.
CaughtByExceptClientError(o) == o = "network_error"

\* "except Exception as err": every exception of an attempt is caught.
CaughtByExceptException(o) == o \in Exceptions

---------------------------------------------------------------------------
(* InelNetClient.send_command *)

\* The activation record when send_command is entered.
SendEnter(channel, action, retries, retry_delay) ==
    [pc |-> "loop", channel |-> channel, action |-> action,
     retries |-> retries, retry_delay |-> retry_delay,
     attempt |-> 0, posts |-> 0, waits |-> 0,
     outcomes |-> << >>, result |-> FALSE, fault |-> FALSE]

\* "if attempt < retries - 1: await asyncio.sleep(retry_delay)"
SleepIfNotLast(c) == IF c.attempt < c.retries - 1 THEN c.waits + 1 ELSE c.waits

\* The except clause of an iteration, entered with the exception e.
SendExcept(c, e) ==
    IF CaughtByExceptException(e)
    THEN [c EXCEPT !.waits = SleepIfNotLast(c), !.attempt = @ + 1]
    ELSE [c EXCEPT !.fault = TRUE, !.pc = "raised"]

\* One iteration of "for attempt in range(retries)" whose POST ends in
\* outcome o.  waits counts the sleeps that ran to their end.
SendIteration(c, o) ==
    LET posted == [c EXCEPT !.posts = @ + 1, !.outcomes = Append(@, o)] IN
    IF o \in Responses THEN
        IF StatusIs200(o)
        THEN IF c.attempt < c.retries - 1 /\ TimeoutDuringSleep(o)
             THEN SendExcept(posted, "timeout")
             ELSE [posted EXCEPT !.waits = SleepIfNotLast(c),
                                 !.result = TRUE, !.pc = "returned"]
        ELSE [posted EXCEPT !.attempt = @ + 1]
    ELSE SendExcept(posted, o)

\* The loop is exhausted: "return False".
SendExhausted(c) == [c EXCEPT !.result = FALSE, !.pc = "returned"]

\* send_command run to its end against the outcomes outs of its attempts
\* (outs has at least `retries` entries; the ones after the return are unused).
RECURSIVE SendRun(_, _)
SendRun(c, outs) ==
    IF c.pc # "loop" THEN c
    ELSE IF c.attempt >= c.retries THEN SendExhausted(c)
    ELSE SendRun(SendIteration(c, Head(outs)), Tail(outs))

Channels == {1, 2}
WireActions == {ACTION_UP, ACTION_UP_SHORT, ACTION_STOP, ACTION_DOWN, ACTION_DOWN_SHORT}

NoCall == [pc |-> "none", channel |-> 0, action |-> 0, retries |-> 0,
           retry_delay |-> 0,
           attempt |-> 0, posts |-> 0, waits |-> 0, outcomes |-> << >>,
           result |-> FALSE, fault |-> FALSE]

send_command_call ==
    /\ call.pc # "loop"
    /\ \E ch \in Channels, act \in {ACTION_UP, ACTION_STOP}, r \in 0..MaxRetries :
          call' = SendEnter(ch, act, r, DEFAULT_RETRY_DELAY)
    /\ UNCHANGED <<probe, coverVars, platformVars>>

send_command_attempt ==
    /\ call.pc = "loop"
    /\ call.attempt < call.retries
    /\ \E o \in Outcomes : call' = SendIteration(call, o)
    /\ UNCHANGED <<probe, coverVars, platformVars>>

send_command_exhausted ==
    /\ call.pc = "loop"
    /\ call.attempt >= call.retries
    /\ call' = SendExhausted(call)
    /\ UNCHANGED <<probe, coverVars, platformVars>>

---------------------------------------------------------------------------
(* InelNetClient.test_connection *)

\* As if the method returned "response.status < 500".
TestConnectionBelow500(o) ==
    [pc |-> "returned", outcome |-> o, gets |-> 1,
     result |-> o \in {"http200", "http200_late", "http404"}, fault |-> FALSE]

\* The single GET and what the method hands back for its outcome o.
TestConnection(o) ==
    IF o \in Responses THEN [pc |-> "returned", outcome |-> o, gets |-> 1,
                             result |-> StatusIs200(o), fault |-> FALSE]
    ELSE IF CaughtByExceptException(o)
        THEN [pc |-> "returned", outcome |-> o, gets |-> 1,
              result |-> FALSE, fault |-> FALSE]
        ELSE [pc |-> "raised", outcome |-> o, gets |-> 1,
              result |-> FALSE, fault |-> TRUE]

NoProbe == [pc |-> "none", outcome |-> "http200", gets |-> 0,
            result |-> FALSE, fault |-> FALSE]

test_connection ==
    /\ \E o \in Outcomes : probe' = TestConnection(o)
    /\ UNCHANGED <<call, coverVars, platformVars>>

---------------------------------------------------------------------------
(* InelNetClient.open_cover / close_cover / stop_cover: send_command with   *)
(* the default retries, reduced to the boolean it returns.                  *)

\* The outcomes the attempts of one default send_command can meet.
OutcomeSeqs ==
    {<<"http200", "http200">>, <<"timeout", "http200">>,
     <<"http200_late", "http500">>, <<"http500", "http404">>,
     <<"network_error", "timeout">>}

ClientCommand(channel, action, outs) ==
    SendRun(SendEnter(channel, action, DEFAULT_RETRIES, DEFAULT_RETRY_DELAY),
            outs).result

open_cover(channel, outs) == ClientCommand(channel, ACTION_UP, outs)
close_cover(channel, outs) == ClientCommand(channel, ACTION_DOWN, outs)
stop_cover(channel, outs) == ClientCommand(channel, ACTION_STOP, outs)

\* The five wrappers as their callers see them: the name, the channel given
Wrappers == {"open_cover", "close_cover", "stop_cover", "open_cover_short",
             "close_cover_short"}

\* Each wrapper sending the code of the other length of movement
WrapperActionSwapped(w) ==
    CASE w = "open_cover" -> ACTION_UP_SHORT
      [] w = "close_cover" -> ACTION_DOWN_SHORT
      [] w = "stop_cover" -> ACTION_STOP
      [] w = "open_cover_short" -> ACTION_UP
      [] w = "close_cover_short" -> ACTION_DOWN

\* The action each wrapper passes to send_command
WrapperAction(w) ==
    CASE w = "open_cover" -> ACTION_UP
      [] w = "close_cover" -> ACTION_DOWN
      [] w = "stop_cover" -> ACTION_STOP
      [] w = "open_cover_short" -> ACTION_UP_SHORT
      [] w = "close_cover_short" -> ACTION_DOWN_SHORT

\* "return await self.send_command(channel, self.ACTION_...)": retries and
\* retry_delay take the defaults of send_command
WrapperEnter(w, channel) ==
    SendEnter(channel, WrapperAction(w), DEFAULT_RETRIES, DEFAULT_RETRY_DELAY)

\* A wrapper is called; last keeps which one, and the channel it was given
wrapper_call ==
    /\ call.pc # "loop"
    /\ \E w \in Wrappers, ch \in Channels :
         /\ call' = WrapperEnter(w, ch)
         /\ last' = [op |-> w, ch |-> ch, id |-> 0, ok |-> TRUE, cmd |-> 0,
                     wrote |-> FALSE, was_moving |-> FALSE]
    /\ UNCHANGED <<probe, devices, cover, tasks, timers, nintents, platformVars>>

---------------------------------------------------------------------------
(* InelNetCover: the state-tracking fields and the position estimate *)

\* None, for _move_target (and a missing ATTR_POSITION)
None == -1
\* None, for _move_start_time: stored times are never in the future
NoTime == 1
\* datetime.now(): the origin of time is the present instant
Now == 0
DEFAULT_TRAVEL_TIME == 20
INITIAL_POSITION == 50

\* travel_time of the configured devices, in seconds
travel_time(ch) == IF ch = 1 THEN DEFAULT_TRAVEL_TIME ELSE 10

\* InelNetCover.__init__.  move_id and latest are observation only: the
\* intent that started the movement recorded, the latest intent issued.
NewCover ==
    [position |-> INITIAL_POSITION, is_moving |-> FALSE, move_start_time |-> NoTime,
     move_start_position |-> INITIAL_POSITION, move_direction |-> "none",
     move_target |-> None, move_id |-> 0, latest |-> 0]

\* The fields of the blind's state proper.
BlindState(c) ==
    <<c.position, c.is_moving, c.move_start_time, c.move_start_position,
      c.move_direction, c.move_target>>

Abs(x) == IF x < 0 THEN -x ELSE x
\* The first of two numbers, not the smaller
Unclamped(a, b) == a
\* The larger of two numbers
Larger(a, b) == IF a > b THEN a ELSE b
Min(a, b) == IF a < b THEN a ELSE b

\* int(x) of a quotient num / den with den > 0: truncation toward zero.
IntTrunc(num, den) == IF num >= 0 THEN num \div den ELSE -((-num) \div den)

\* The time of a full traverse, whatever the distance
DurationFullTravel(distance, tt) == 100 * tt

\* The same time in whole seconds
DurationInSeconds(distance, tt) == (distance * tt) \div 100

\* (distance / 100) * travel_time seconds, in time units of 1/100 s
Duration(distance, tt) == distance * tt

\* _calculate_current_position at time t.  progress = min(elapsed /
\* duration, 1.0) is kept as the fraction pnum / pden.
calculate_current_position(c, tt, t) ==
    IF ~c.is_moving \/ c.move_start_time = NoTime THEN c.position
    ELSE
    LET elapsed == t - c.move_start_time
        start == c.move_start_position
    IN  IF c.move_target # None THEN
            LET distance == Abs(c.move_target - start)
                duration == Duration(distance, tt)
                pnum == IF duration > 0 THEN Min(elapsed, duration) ELSE 1
                pden == IF duration > 0 THEN duration ELSE 1
            IN  IF c.move_direction = "up"
                THEN IntTrunc(start * pden + (c.move_target - start) * pnum, pden)
                ELSE IntTrunc(start * pden - (start - c.move_target) * pnum, pden)
        ELSE
            LET pden == 100 * tt
                pnum == Min(elapsed, pden)
            IN  IF c.move_direction = "up"
                THEN IntTrunc(start * pden + (100 - start) * pnum, pden)
                ELSE IntTrunc(start * (pden - pnum), pden)

\* current_cover_position
current_cover_position(c, tt, t) ==
    IF c.is_moving THEN calculate_current_position(c, tt, t) ELSE c.position

is_closed(c) == c.position <= 2
is_opening(c) == c.is_moving /\ c.move_direction = "up"
\* Moving, in whichever direction
is_moving_any(c) == c.is_moving
is_closing(c) == c.is_moving /\ c.move_direction = "down"

\* The fields of a movement recorded without its target
start_movement_without_target(c, direction, target, t, id) ==
    [c EXCEPT !.is_moving = TRUE, !.move_start_time = t,
              !.move_start_position = c.position,
              !.move_direction = direction, !.move_target = None,
              !.move_id = id]

\* _start_movement: the fields it sets
start_movement(c, direction, target, t, id) ==
    [c EXCEPT !.is_moving = TRUE, !.move_start_time = t,
              !.move_start_position = c.position,
              !.move_direction = direction, !.move_target = target,
              !.move_id = id]

\* _start_movement: the duration it computes
movement_duration(c, direction, target, tt) ==
    IF target # None THEN Duration(Abs(target - c.position), tt)
    ELSE IF direction = "up" THEN Duration(100 - c.position, tt)
    ELSE Duration(c.position, tt)

\* _start_movement: "if duration > 0: self.hass.loop.call_later(duration, ...)"
schedule_completion(ch, c, direction, target, t, id) ==
    LET duration == movement_duration(c, direction, target, travel_time(ch))
    IN  IF duration > 0 THEN {[ch |-> ch, due |-> t + duration, id |-> id]}
        ELSE {}

\* A completion that acts whatever the state of the blind
completion_always_acts(c) == TRUE

\* _complete_movement: the guard under which it acts
completion_acts(c) == c.is_moving

\* A completion that ends every movement at the end of its direction
complete_movement_ignores_target(c) ==
    IF ~completion_acts(c) THEN c
    ELSE [c EXCEPT
            !.position = IF c.move_direction = "up" THEN 100 ELSE 0,
            !.is_moving = FALSE, !.move_start_time = NoTime,
            !.move_direction = "none", !.move_target = None]

\* _complete_movement
complete_movement(c) ==
    IF ~completion_acts(c) THEN c
    ELSE [c EXCEPT
            !.position = IF c.move_target # None THEN c.move_target
                         ELSE IF c.move_direction = "up" THEN 100 ELSE 0,
            !.is_moving = FALSE, !.move_start_time = NoTime,
            !.move_direction = "none", !.move_target = None]

\* The movement fields cleared, the stored position left as it was
stop_movement_keeps_position(c, tt, t) ==
    IF c.is_moving
    THEN [c EXCEPT !.is_moving = FALSE, !.move_start_time = NoTime,
                   !.move_direction = "none", !.move_target = None]
    ELSE c

\* The position frozen and the flag cleared, the target left in place
stop_movement_keeps_target(c, tt, t) ==
    IF c.is_moving
    THEN [c EXCEPT !.position = calculate_current_position(c, tt, t),
                   !.is_moving = FALSE, !.move_start_time = NoTime,
                   !.move_direction = "none"]
    ELSE c

\* _stop_movement
stop_movement(c, tt, t) ==
    IF c.is_moving
    THEN [c EXCEPT !.position = calculate_current_position(c, tt, t),
                   !.is_moving = FALSE, !.move_start_time = NoTime,
                   !.move_direction = "none", !.move_target = None]
    ELSE c

---------------------------------------------------------------------------
(* The intents of InelNetCover and its deferred tasks.  A coroutine runs   *)
(* without interruption up to its next await of the client or of a sleep;  *)
(* each action below is one such stretch.                                   *)

\* The positions a caller asks for (ATTR_POSITION)
Targets == {0, 30, 52, 80, 100}

Task(id, ch, kind, pc, position, direction, duration, due) ==
    [id |-> id, ch |-> ch, kind |-> kind, pc |-> pc, position |-> position,
     direction |-> direction, duration |-> duration, due |-> due,
     waited |-> 0]

\* What an event publishes when the step makes no async_write_ha_state
NoWrite == <<>>

Event(op, ch, id, ok, cmd, wrote, was_moving) ==
    [op |-> op, ch |-> ch, id |-> id, ok |-> ok, cmd |-> cmd, wrote |-> wrote,
     was_moving |-> was_moving, written |-> NoWrite]

\* An event that publishes nothing
NotifiedNothing(ev, d) == ev

\* self.async_write_ha_state(): the event of a step that writes publishes the
\* state d the blind has at the last write of the step.
Notified(ev, d) == IF ev.wrote THEN [ev EXCEPT !.written = BlindState(d)] ELSE ev

NoEvent == Event("init", 0, 0, TRUE, 0, FALSE, FALSE)

\* "up" for async_open_cover, "down" for async_close_cover
IntentDirection(kind) == IF kind = "open" THEN "up" ELSE "down"
IntentAction(kind) == IF kind = "open" THEN ACTION_UP ELSE ACTION_DOWN

\* As if the freeze of an intent stopped the movement of every blind.
DirectionalCallFreezesAll(ch, kind) ==
    /\ nintents < MaxIntents
    /\ LET id == nintents + 1
           c == cover[ch]
       IN  /\ cover' = [x \in devices |->
                          [stop_movement(cover[x], travel_time(x), Now)
                              EXCEPT !.latest = IF x = ch THEN id ELSE @]]
           /\ tasks' = tasks \cup {Task(id, ch, kind, "http", None,
                                        IntentDirection(kind), 0, None)}
           /\ nintents' = id
           /\ last' = Notified(Event(kind, ch, id, TRUE, IntentAction(kind),
                                     c.is_moving, c.is_moving),
                               stop_movement(c, travel_time(ch), Now))
    /\ UNCHANGED <<devices, timers, clientVars, platformVars>>

\* async_open_cover / async_close_cover, up to the await of the client:
\* "await self._stop_movement()", then the command is handed to the client.
DirectionalCall(ch, kind) ==
    /\ nintents < MaxIntents
    /\ LET id == nintents + 1
           c == cover[ch]
           frozen == stop_movement(c, travel_time(ch), Now)
       IN  /\ cover' = [cover EXCEPT ![ch] = [frozen EXCEPT !.latest = id]]
           /\ tasks' = tasks \cup {Task(id, ch, kind, "http", None,
                                        IntentDirection(kind), 0, None)}
           /\ nintents' = id
           /\ last' = Notified(Event(kind, ch, id, TRUE, IntentAction(kind),
                                     c.is_moving, c.is_moving),
                               stop_movement(c, travel_time(ch), Now))
    /\ UNCHANGED <<devices, timers, clientVars, platformVars>>

\* async_open_cover / async_close_cover, from the client's answer ok on:
\* "if await self._client.open_cover(...): await self._start_movement(...)"
DirectionalReturn(t, ok) ==
    /\ t.pc = "http"
    /\ LET c == cover[t.ch] IN
       IF ok
       THEN /\ cover' = [cover EXCEPT ![t.ch] =
                            start_movement(c, t.direction, None, Now, t.id)]
            /\ timers' = timers \cup
                            schedule_completion(t.ch, c, t.direction, None, Now, t.id)
       ELSE UNCHANGED <<cover, timers>>
    /\ tasks' = tasks \ {t}
    /\ last' = Notified(Event("directional_return", t.ch, t.id, ok, 0, ok,
                              cover[t.ch].is_moving),
                        start_movement(cover[t.ch], t.direction, None, Now, t.id))
    /\ UNCHANGED <<devices, nintents, clientVars, platformVars>>

async_open_cover == \E ch \in devices : DirectionalCall(ch, "open")

async_open_cover_return ==
    \E t \in tasks, outs \in OutcomeSeqs :
        t.kind = "open" /\ DirectionalReturn(t, open_cover(t.ch, outs))

async_close_cover == \E ch \in devices : DirectionalCall(ch, "close")

async_close_cover_return ==
    \E t \in tasks, outs \in OutcomeSeqs :
        t.kind = "close" /\ DirectionalReturn(t, close_cover(t.ch, outs))

\* async_stop_cover up to the await of the client: nothing but the command.
async_stop_cover ==
    /\ nintents < MaxIntents
    /\ \E ch \in devices :
         LET id == nintents + 1 IN
         /\ cover' = [cover EXCEPT ![ch].latest = id]
         /\ tasks' = tasks \cup {Task(id, ch, "stop", "http", None, "none", 0,
                                      None)}
         /\ nintents' = id
         /\ last' = Event("stop", ch, id, TRUE, ACTION_STOP, FALSE,
                          cover[ch].is_moving)
    /\ UNCHANGED <<devices, timers, clientVars, platformVars>>

\* As if _stop_movement ran whatever the STOP command returned.
async_stop_cover_return_unconditional ==
    /\ \E t \in tasks, outs \in OutcomeSeqs :
         LET ok == stop_cover(t.ch, outs)
             c == cover[t.ch]
         IN  /\ t.kind = "stop" /\ t.pc = "http"
             /\ cover' = [cover EXCEPT ![t.ch] =
                             stop_movement(c, travel_time(t.ch), Now)]
             /\ tasks' = tasks \ {t}
             /\ last' = Notified(Event("stop_return", t.ch, t.id, ok, 0,
                                       ok /\ c.is_moving, c.is_moving),
                                 stop_movement(c, travel_time(t.ch), Now))
    /\ UNCHANGED <<devices, timers, nintents, clientVars, platformVars>>

\* "if await self._client.stop_cover(...): await self._stop_movement()"
async_stop_cover_return ==
    /\ \E t \in tasks, outs \in OutcomeSeqs :
         LET ok == stop_cover(t.ch, outs)
             c == cover[t.ch]
         IN  /\ t.kind = "stop" /\ t.pc = "http"
             /\ cover' = [cover EXCEPT ![t.ch] =
                             IF ok THEN stop_movement(c, travel_time(t.ch), Now)
                             ELSE c]
             /\ tasks' = tasks \ {t}
             /\ last' = Notified(Event("stop_return", t.ch, t.id, ok, 0,
                                       ok /\ c.is_moving, c.is_moving),
                                 stop_movement(c, travel_time(t.ch), Now))
    /\ UNCHANGED <<devices, timers, nintents, clientVars, platformVars>>

\* "if abs(position - current) < 3: return  # Close enough"
CloseEnough(position, current) == Abs(position - current) < 3

\* async_set_cover_position up to the await of the client (or to its return,
\* when position is None or close enough).
async_set_cover_position ==
    /\ nintents < MaxIntents
    /\ \E ch \in devices, position \in Targets \cup {None} :
         LET id == nintents + 1
             c == cover[ch]
             frozen == stop_movement(c, travel_time(ch), Now)
             current == frozen.position
             direction == IF position > current THEN "up" ELSE "down"
             duration == Duration(Abs(position - current), travel_time(ch))
         IN  /\ nintents' = id
             /\ IF position = None
                THEN /\ cover' = cover
                     /\ tasks' = tasks
                     /\ last' = Event("set_none", ch, id, TRUE, 0, FALSE, c.is_moving)
                ELSE IF CloseEnough(position, current)
                THEN /\ cover' = [cover EXCEPT ![ch] = [frozen EXCEPT !.latest = id]]
                     /\ tasks' = tasks
                     /\ last' = Notified(Event("set_close_enough", ch, id, TRUE,
                                               0, c.is_moving, c.is_moving),
                                         frozen)
                ELSE /\ cover' = [cover EXCEPT ![ch] = [frozen EXCEPT !.latest = id]]
                     /\ tasks' = tasks \cup {Task(id, ch, "set", "http", position,
                                                  direction, duration, None)}
                     /\ last' = Notified(Event("set", ch, id, TRUE,
                                               IF direction = "up" THEN ACTION_UP
                                               ELSE ACTION_DOWN,
                                               c.is_moving, c.is_moving),
                                         frozen)
    /\ UNCHANGED <<devices, timers, clientVars, platformVars>>

\* async_set_cover_position from the client's answer on: the answer is not
\* looked at; _start_movement, then the send_stop task is created and sleeps.
async_set_cover_position_return ==
    /\ \E t \in tasks, outs \in OutcomeSeqs :
         LET ok == IF t.direction = "up" THEN open_cover(t.ch, outs)
                   ELSE close_cover(t.ch, outs)
             c == cover[t.ch]
         IN  /\ t.kind = "set" /\ t.pc = "http"
             /\ cover' = [cover EXCEPT ![t.ch] =
                             start_movement(c, t.direction, t.position, Now, t.id)]
             /\ timers' = timers \cup
                    schedule_completion(t.ch, c, t.direction, t.position, Now, t.id)
             /\ tasks' = (tasks \ {t}) \cup
                    {[t EXCEPT !.kind = "send_stop", !.pc = "sleep",
                               !.due = Now + t.duration, !.waited = 0]}
             /\ last' = Notified(
                    Event("set_return", t.ch, t.id, ok, 0, TRUE, c.is_moving),
                    start_movement(c, t.direction, t.position, Now, t.id))
    /\ UNCHANGED <<devices, nintents, clientVars, platformVars>>

\* A scheduled stop that acts on any movement, whatever its target
send_stop_acts_on_any_movement(c, position) == c.is_moving

\* send_stop: "if self._is_moving and self._move_target == position"
send_stop_acts(c, position) == c.is_moving /\ c.move_target = position

\* send_stop when its sleep ends, up to the await of the client
send_stop_wake ==
    /\ \E t \in tasks :
         LET c == cover[t.ch] IN
         /\ t.kind = "send_stop" /\ t.pc = "sleep" /\ t.due <= Now
         /\ IF send_stop_acts(c, t.position)
            THEN /\ tasks' = (tasks \ {t}) \cup {[t EXCEPT !.pc = "http", !.due = None]}
                 /\ last' = Event("send_stop", t.ch, t.id, TRUE, ACTION_STOP,
                                  FALSE, c.is_moving)
            ELSE /\ tasks' = tasks \ {t}
                 /\ last' = Event("send_stop_skip", t.ch, t.id, TRUE, 0, FALSE,
                                  c.is_moving)
    /\ UNCHANGED <<devices, cover, timers, nintents, clientVars, platformVars>>

\* send_stop from the client's answer on: the answer is not looked at;
\* _stop_movement, "self._position = position", async_write_ha_state
send_stop_return ==
    /\ \E t \in tasks, outs \in OutcomeSeqs :
         LET ok == stop_cover(t.ch, outs)
             c == cover[t.ch]
         IN  /\ t.kind = "send_stop" /\ t.pc = "http"
             /\ cover' = [cover EXCEPT ![t.ch] =
                    [stop_movement(c, travel_time(t.ch), Now)
                        EXCEPT !.position = t.position]]
             /\ tasks' = tasks \ {t}
             /\ last' = Notified(
                    Event("send_stop_return", t.ch, t.id, ok, 0, TRUE, c.is_moving),
                    [stop_movement(c, travel_time(t.ch), Now)
                        EXCEPT !.position = t.position])
    /\ UNCHANGED <<devices, timers, nintents, clientVars, platformVars>>

\* The call_later of _start_movement falls due: _complete_movement runs.
completion_fires ==
    /\ \E tm \in timers :
         LET c == cover[tm.ch] IN
         /\ tm.due <= Now
         /\ cover' = [cover EXCEPT ![tm.ch] = complete_movement(c)]
         /\ timers' = timers \ {tm}
         /\ last' = Notified(Event("complete", tm.ch, tm.id, TRUE, 0,
                                   completion_acts(c), c.is_moving),
                             complete_movement(c))
    /\ UNCHANGED <<devices, tasks, nintents, clientVars, platformVars>>

\* The clock.  A timer or a sleep that is due runs before time goes on; an
\* HTTP exchange (at most two attempts, each under asyncio.timeout) ends
\* before the clock has stepped more than MaxHttpSteps times.
Dues == {tm.due : tm \in timers} \cup {t.due : t \in {x \in tasks : x.pc = "sleep"}}

\* The step of the clock: an eighth of the default travel time
TickStep == (DEFAULT_TRAVEL_TIME * 100) \div 8

\* No projection looks further back than a full traverse: progress is
\* min(elapsed / duration, 1.0) and every duration is at most 100 * travel_time.
MaxAge(ch) == 100 * travel_time(ch)

Elapse(c, ch, d) ==
    IF c.move_start_time = NoTime THEN c
    ELSE [c EXCEPT !.move_start_time =
            IF @ - d < Now - MaxAge(ch) THEN Now - MaxAge(ch) ELSE @ - d]

Tick ==
    /\ \A d \in Dues : d > Now
    /\ \A t \in tasks : t.pc = "http" => t.waited < MaxHttpSteps
    /\ LET before == {d \in Dues : d < Now + TickStep}
           d == IF before = {} THEN TickStep
                ELSE (CHOOSE x \in before : \A e \in before : x <= e) - Now
       IN  /\ cover' = [ch \in devices |-> Elapse(cover[ch], ch, d)]
           /\ timers' = {[tm EXCEPT !.due = @ - d] : tm \in timers}
           /\ tasks' = {IF t.pc = "sleep" THEN [t EXCEPT !.due = @ - d]
                        ELSE [t EXCEPT !.waited = @ + 1] : t \in tasks}
    /\ last' = Event("tick", 0, 0, TRUE, 0, FALSE, FALSE)
    /\ UNCHANGED <<devices, nintents, clientVars, platformVars>>

---------------------------------------------------------------------------
(* InelNetConnectivitySensor (binary_sensor.py).  A check is one probe of   *)
(* the controller followed by the update of the sensor; the checks of one   *)
(* sensor are 60 s apart and a probe ends within DEFAULT_TIMEOUT, so they   *)
(* follow one another.  probes and streak are observation only: the number  *)
(* of checks made, and the failed probes since the last successful one.     *)

NewSensor == [is_on |-> TRUE, consecutive_failures |-> 0, probes |-> 0,
              streak |-> 0]

\* As if the sensor went offline on any failed probe.
CheckConnectivityNoDebounce(s, p) ==
    IF ~p.fault /\ p.result
    THEN [s EXCEPT !.consecutive_failures = 0, !.is_on = TRUE,
                   !.probes = @ + 1, !.streak = 0]
    ELSE [s EXCEPT !.consecutive_failures = @ + 1, !.is_on = FALSE,
                   !.probes = @ + 1, !.streak = @ + 1]

\* _check_connectivity, given the activation p of test_connection: the try
\* body when it returned, the except clause when it raised.
CheckConnectivity(s, p) ==
    IF ~p.fault /\ p.result
    THEN [s EXCEPT !.consecutive_failures = 0, !.is_on = TRUE,
                   !.probes = @ + 1, !.streak = 0]
    ELSE [s EXCEPT !.consecutive_failures = @ + 1,
                   !.is_on = IF s.consecutive_failures + 1 >= 3 THEN FALSE ELSE @,
                   !.probes = @ + 1, !.streak = @ + 1]

check_connectivity ==
    /\ sensor.probes < MaxProbes
    /\ \E o \in Outcomes :
         /\ probe' = TestConnection(o)
         /\ sensor' = CheckConnectivity(sensor, TestConnection(o))
    /\ UNCHANGED <<call, coverVars, config_entry, flow, hass>>

---------------------------------------------------------------------------
(* InelNetConfigFlow and InelNetOptionsFlow (config_flow.py).  A device is  *)
(* kept as its CONF_CHANNEL; a list of devices is a sequence of channels.   *)

NoEntry == [exists |-> FALSE, devices |-> << >>]

\* InelNetConfigFlow.__init__; step "none": no flow is in progress
NoFlow == [step |-> "none", devices |-> << >>, num_devices |-> 1,
           current_device |-> 0, selected_device_index |-> None]

\* The sequence q without its i-th element ("del self._devices[index]")
RemoveAt(q, i) == [k \in 1..(Len(q) - 1) |-> IF k < i THEN q[k] ELSE q[k + 1]]

\* async_step_user with a host: validate_connection, then the devices form
async_step_user ==
    /\ flow.step = "none" /\ ~config_entry.exists
    /\ \E o \in Outcomes :
         flow' = IF StatusIs200(o) THEN [NoFlow EXCEPT !.step = "devices"]
                 ELSE flow
    /\ UNCHANGED <<config_entry, sensor, hass, clientVars, coverVars>>

\* async_step_devices with the number of devices
async_step_devices ==
    /\ flow.step = "devices"
    /\ \E n \in 1..MaxDevices :
         flow' = [flow EXCEPT !.step = "device_config", !.num_devices = n,
                              !.current_device = 0, !.devices = << >>]
    /\ UNCHANGED <<config_entry, sensor, hass, clientVars, coverVars>>

\* async_step_device_config with one device: appended; the entry is created
\* when it was the last one
async_step_device_config ==
    /\ flow.step = "device_config"
    /\ \E ch \in Channels :
         LET ds == Append(flow.devices, ch)
             current == flow.current_device + 1
         IN  IF current < flow.num_devices
             THEN /\ flow' = [flow EXCEPT !.devices = ds,
                                          !.current_device = current]
                  /\ config_entry' = config_entry
             ELSE /\ flow' = NoFlow
                  /\ config_entry' = [exists |-> TRUE, devices |-> ds]
    /\ UNCHANGED <<sensor, hass, clientVars, coverVars>>

\* InelNetOptionsFlow.__init__ and async_step_init with the action chosen
async_step_init ==
    /\ flow.step = "none" /\ config_entry.exists
    /\ \E action \in {"add_device", "select_device", "remove_device"} :
         /\ action = "add_device" => Len(config_entry.devices) < MaxDevices
         /\ flow' = [NoFlow EXCEPT
                        !.devices = config_entry.devices,
                        !.step = IF action # "add_device" /\ config_entry.devices = << >>
                                 THEN "none" ELSE action]
    /\ UNCHANGED <<config_entry, sensor, hass, clientVars, coverVars>>

\* _save_and_finish: the entry's CONF_DEVICES become ds
SaveAndFinish(entry, ds) == [entry EXCEPT !.devices = ds]

\* async_step_select_device with the index chosen: on to the edit form
async_step_select_device ==
    /\ flow.step = "select_device"
    /\ \E i \in 1..Len(flow.devices) :
         flow' = [flow EXCEPT !.step = "edit_device", !.selected_device_index = i]
    /\ UNCHANGED <<config_entry, sensor, hass, clientVars, coverVars>>

\* async_step_edit_device with the device's new values
async_step_edit_device ==
    /\ flow.step = "edit_device"
    /\ \E ch \in Channels :
         config_entry' = SaveAndFinish(config_entry,
             [flow.devices EXCEPT ![flow.selected_device_index] = ch])
    /\ flow' = NoFlow
    /\ UNCHANGED <<sensor, hass, clientVars, coverVars>>

\* async_step_add_device with the new device
async_step_add_device ==
    /\ flow.step = "add_device"
    /\ \E ch \in Channels :
         config_entry' = SaveAndFinish(config_entry, Append(flow.devices, ch))
    /\ flow' = NoFlow
    /\ UNCHANGED <<sensor, hass, clientVars, coverVars>>

\* async_step_remove_device with the index chosen
async_step_remove_device ==
    /\ flow.step = "remove_device"
    /\ \E i \in 1..Len(flow.devices) :
         config_entry' = SaveAndFinish(config_entry, RemoveAt(flow.devices, i))
    /\ flow' = NoFlow
    /\ UNCHANGED <<sensor, hass, clientVars, coverVars>>

\* cover.async_setup_entry: one InelNetCover for each device of the entry
ConstructedCovers(entry) == entry.devices

---------------------------------------------------------------------------
(* async_setup_entry of the integration (__init__.py) and of the cover      *)
(* platform (cover.py).  The entries of two controllers may be set up side  *)
(* by side; one activation is cut at its awaits: the connection test, the   *)
(* forwarding to the platforms, the registration of the services.           *)

\* The entry ids of the controllers configured
Entries == {1, 2}

\* entry.data[CONF_HOST]
Host(e) == IF e = 1 THEN "host1" ELSE "host2"

\* The CONF_DEVICES an entry may hold (a device is kept as its channel)
EntryDevices == {<< >>, <<1>>, <<2, 1>>}

\* No value under hass.data[DOMAIN][entry_id]
NoData == [stored |-> FALSE, client |-> "", devices |-> << >>, host |-> ""]

\* An activation of async_setup_entry that has not begun.  forwarded and
\* registered are observation only: what this activation has done so far.
NoSetup == [pc |-> "none", devices |-> << >>, result |-> FALSE,
            forwarded |-> FALSE, registered |-> FALSE]

\* Home Assistant before any entry is set up
NoHass == [domain |-> FALSE,
           data |-> [e \in Entries |-> NoData],
           entities |-> [e \in Entries |-> << >>],
           services |-> FALSE,
           setup |-> [e \in Entries |-> NoSetup]]

\* As if the entry's data were stored before the connection was tested
SetupAfterProbeStoresFirst(h, e, p) ==
    LET stored == [h EXCEPT !.data[e] =
                       [stored |-> TRUE, client |-> Host(e),
                        devices |-> h.setup[e].devices, host |-> Host(e)]]
    IN  IF p.fault THEN [stored EXCEPT !.setup[e].pc = "raised"]
        ELSE IF ~p.result
        THEN [stored EXCEPT !.setup[e].pc = "returned", !.setup[e].result = FALSE]
        ELSE [stored EXCEPT !.setup[e].pc = "forwarding"]

\* async_setup_entry from the answer p of test_connection on: "return
\* False" when it is false; otherwise hass.data[DOMAIN][entry.entry_id] is
\* assigned, up to the await of async_forward_entry_setups.
SetupAfterProbe(h, e, p) ==
    IF p.fault THEN [h EXCEPT !.setup[e].pc = "raised"]
    ELSE IF ~p.result
    THEN [h EXCEPT !.setup[e].pc = "returned", !.setup[e].result = FALSE]
    ELSE [h EXCEPT !.data[e] =
                       [stored |-> TRUE, client |-> Host(e),
                        devices |-> h.setup[e].devices, host |-> Host(e)],
                   !.setup[e].pc = "forwarding"]

\* async_setup_entry up to the await of client.test_connection():
\* hass.data.setdefault(DOMAIN, {}), host and devices read from the entry
async_setup_entry ==
    /\ \E e \in Entries, ds \in EntryDevices :
         /\ hass.setup[e].pc = "none"
         /\ hass' = [hass EXCEPT !.domain = TRUE,
                                  !.setup[e].pc = "probing",
                                  !.setup[e].devices = ds]
    /\ UNCHANGED <<sensor, config_entry, flow, clientVars, coverVars>>

\* async_setup_entry when the connection test has answered
async_setup_entry_tested ==
    /\ \E e \in Entries, o \in Outcomes :
         /\ hass.setup[e].pc = "probing"
         /\ probe' = TestConnection(o)
         /\ hass' = SetupAfterProbe(hass, e, TestConnection(o))
    /\ UNCHANGED <<call, sensor, config_entry, flow, coverVars>>

\* async_forward_entry_setups: async_setup_entry of the cover platform reads
\* hass.data[DOMAIN][entry.entry_id] (a KeyError when it is absent) and adds
\* one InelNetCover for each of its devices.
async_forward_entry_setups ==
    /\ \E e \in Entries :
         /\ hass.setup[e].pc = "forwarding"
         /\ hass' = IF ~hass.data[e].stored
                     THEN [hass EXCEPT !.setup[e].pc = "raised"]
                     ELSE [hass EXCEPT
                              !.entities[e] = ConstructedCovers(hass.data[e]),
                              !.setup[e].forwarded = TRUE,
                              !.setup[e].pc = "registering"]
    /\ UNCHANGED <<sensor, config_entry, flow, clientVars, coverVars>>

\* "await async_register_services(hass)", then "return True"
async_register_services ==
    /\ \E e \in Entries :
         /\ hass.setup[e].pc = "registering"
         /\ hass' = [hass EXCEPT !.services = TRUE,
                                  !.setup[e].registered = TRUE,
                                  !.setup[e].pc = "returned",
                                  !.setup[e].result = TRUE]
    /\ UNCHANGED <<sensor, config_entry, flow, clientVars, coverVars>>

---------------------------------------------------------------------------
InitClient ==
    /\ call = NoCall
    /\ probe = NoProbe

InitCover ==
    /\ devices = {1}
    /\ cover = [ch \in devices |-> NewCover]
    /\ tasks = {}
    /\ timers = {}
    /\ nintents = 0
    /\ last = NoEvent

InitPlatform ==
    /\ sensor = NewSensor
    /\ config_entry = NoEntry
    /\ flow = NoFlow
    /\ hass = NoHass

Init == InitClient /\ InitCover /\ InitPlatform

NextClient ==
    \/ send_command_call
    \/ send_command_attempt
    \/ send_command_exhausted
    \/ test_connection

SpecClient == Init /\ [][NextClient]_vars

NextWrappers ==
    \/ wrapper_call
    \/ send_command_attempt
    \/ send_command_exhausted

SpecWrappers == Init /\ [][NextWrappers]_vars

NextSensor == check_connectivity

SpecSensor == Init /\ [][NextSensor]_vars

NextConfig ==
    \/ async_step_user
    \/ async_step_devices
    \/ async_step_device_config
    \/ async_step_init
    \/ async_step_select_device
    \/ async_step_edit_device
    \/ async_step_add_device
    \/ async_step_remove_device

SpecConfig == Init /\ [][NextConfig]_vars

NextSetup ==
    \/ async_setup_entry
    \/ async_setup_entry_tested
    \/ async_forward_entry_setups
    \/ async_register_services

SpecSetup == Init /\ [][NextSetup]_vars

Next ==
    \/ async_open_cover
    \/ async_open_cover_return
    \/ async_close_cover
    \/ async_close_cover_return
    \/ async_stop_cover
    \/ async_stop_cover_return
    \/ async_set_cover_position
    \/ async_set_cover_position_return
    \/ send_stop_wake
    \/ send_stop_return
    \/ completion_fires
    \/ Tick

Spec == Init /\ [][Next]_vars

\* The event loop runs every callback that is due and resumes every coroutine
\* whose await has ended; the clock goes on and every HTTP exchange ends
\* (each attempt is under asyncio.timeout).  Nothing obliges a caller to issue
\* an intent.
Fairness ==
    /\ WF_vars(Tick)
    /\ WF_vars(completion_fires)
    /\ WF_vars(send_stop_wake)
    /\ WF_vars(send_stop_return)
    /\ WF_vars(async_open_cover_return)
    /\ WF_vars(async_close_cover_return)
    /\ WF_vars(async_stop_cover_return)
    /\ WF_vars(async_set_cover_position_return)

FairSpec == Spec /\ Fairness

\* Two configured devices, one blind each
InitTwo ==
    /\ InitClient /\ InitPlatform
    /\ devices = Channels
    /\ cover = [ch \in Channels |-> NewCover]
    /\ tasks = {}
    /\ timers = {}
    /\ nintents = 0
    /\ last = NoEvent

SpecTwo == InitTwo /\ [][Next]_vars

---------------------------------------------------------------------------
(* The estimator on its own: _calculate_current_position, _stop_movement   *)
(* and _complete_movement applied to a movement that _start_movement has   *)
(* just recorded, for every start position, direction and target.          *)

\* The positions of a blind: 0 is closed, 100 is fully open
Positions == 0..100

\* A blind IDLE at position p on which _start_movement(direction, target)
\* has just run.
InitProjection ==
    /\ InitClient /\ InitPlatform
    /\ \E ch \in Channels, p \in Positions, direction \in {"up", "down"},
          target \in Positions \cup {None} :
         LET idle == [NewCover EXCEPT !.position = p] IN
         /\ devices = {ch}
         /\ cover = [c \in {ch} |-> start_movement(idle, direction, target, Now, 1)]
         /\ timers = schedule_completion(ch, idle, direction, target, Now, 1)
    /\ tasks = {}
    /\ nintents = 1
    /\ last = NoEvent

\* The clock while a projection can still change.  It stops at the deadline
\* of a call_later on its way, but does not wait for the callback: the loop
\* runs it at the deadline or later, and the position can be read in between.
time_passes ==
    /\ \E ch \in devices :
         cover[ch].is_moving /\ cover[ch].move_start_time > Now - MaxAge(ch)
    /\ LET ahead == {tm.due - Now :
                        tm \in {x \in timers : x.due > Now /\ x.due - Now < TickStep}}
           d == IF ahead = {} THEN TickStep
                ELSE CHOOSE x \in ahead : \A e \in ahead : x <= e
       IN  /\ cover' = [ch \in devices |-> Elapse(cover[ch], ch, d)]
           /\ timers' = {[tm EXCEPT !.due = @ - d] : tm \in timers}
    /\ last' = Event("tick", 0, 0, TRUE, 0, FALSE, FALSE)
    /\ UNCHANGED <<devices, tasks, nintents, clientVars, platformVars>>

\* "await self._stop_movement()" on its own
stop_movement_step ==
    /\ \E ch \in devices :
         LET c == cover[ch] IN
         /\ cover' = [cover EXCEPT ![ch] = stop_movement(c, travel_time(ch), Now)]
         /\ last' = Notified(Event("stop_movement", ch, c.move_id, TRUE, 0,
                                   c.is_moving, c.is_moving),
                             stop_movement(c, travel_time(ch), Now))
    /\ UNCHANGED <<devices, tasks, timers, nintents, clientVars, platformVars>>

NextProjection ==
    \/ time_passes
    \/ stop_movement_step
    \/ completion_fires

SpecProjection == InitProjection /\ [][NextProjection]_vars

---------------------------------------------------------------------------
(* Properties of InelNetClient, checked under SpecClient *)

Has200(outs) == \E i \in 1..Len(outs) : StatusIs200(outs[i])

\* C1: send_command returns true if and only if one of its first `retries`
\* attempts receives HTTP 200; it makes no attempt after the first 200 and
\* never more than `retries` attempts.
C1_TrueIffSomeAttempt200 ==
    /\ call.posts = Len(call.outcomes)
    /\ call.posts <= call.retries
    /\ \A i \in 1..Len(call.outcomes) :
          StatusIs200(call.outcomes[i]) =>
              i = Len(call.outcomes) /\ call.pc = "returned" /\ call.result
    /\ call.pc = "returned" => (call.result <=> Has200(call.outcomes))

\* C2: when every attempt of send_command fails, by an exception or by a
\* non-200 status, a wait of retry_delay follows each failed attempt but the
\* last: retries = n gives exactly n - 1 waits.
C2_WaitsBetweenFailedAttempts ==
    (call.pc = "returned" /\ ~call.result /\ call.retries >= 1)
        => call.waits = call.retries - 1

\* C3: send_command lets no fault reach its caller: whatever its attempts end
\* in, it ends with a boolean, and when all fail it returns false after
\* exactly `retries` attempts.
C3_NoFaultFalseAfterRetries ==
    /\ ~call.fault /\ call.pc # "raised"
    /\ call.pc = "loop" => call.attempt <= call.retries
    /\ call.pc = "returned" => call.result \in BOOLEAN
    /\ (call.pc = "returned" /\ ~call.result) => call.posts = call.retries

C3_Witness ==
    /\ call.pc = "returned" /\ ~call.result
    /\ call.outcomes = <<"http500", "timeout">>

\* C4: test_connection returns true only when its single GET answers HTTP
\* 200; a network error, a timeout or another status gives false, and nothing
\* is raised.
C4_ProbeTrueOnlyOn200 ==
    probe.pc # "none" =>
        /\ probe.pc = "returned" /\ ~probe.fault
        /\ probe.gets = 1
        /\ probe.result <=> StatusIs200(probe.outcome)

C4_Witness == probe.pc = "returned" /\ probe.outcome = "timeout" /\ ~probe.result

\* C28: send_command returns at once after the attempt that receives HTTP
\* 200: no wait of retry_delay follows a successful attempt, whichever
\* attempt it is, so a success on the first attempt involves no wait.
C28_NoWaitAfter200 ==
    [][(call.pc = "loop" /\ call'.pc = "returned" /\ call'.result) =>
          /\ call'.waits = call.waits
          /\ call'.posts = 1 => call'.waits = 0]_vars

---------------------------------------------------------------------------
(* Properties of the wrappers of InelNetClient, checked under SpecWrappers *)

\* C25: each wrapper sends the action code of its command (open_cover 160,
\* close_cover 192, stop_cover 144, open_cover_short 176, close_cover_short
\* 208) to the channel it was given, with the default retries = 2 and
\* retry_delay = 0.8 s.
C25_WrappersSendTheirCode ==
    last.op \in Wrappers =>
       /\ call.channel = last.ch
       /\ call.action = (CASE last.op = "open_cover" -> 160
                           [] last.op = "close_cover" -> 192
                           [] last.op = "stop_cover" -> 144
                           [] last.op = "open_cover_short" -> 176
                           [] last.op = "close_cover_short" -> 208)
       /\ call.retries = 2 /\ call.retry_delay = 80
       /\ call.posts <= 2

C25_Witness ==
    /\ last.op = "close_cover_short" /\ last.ch = 2
    /\ call.pc = "returned" /\ call.posts = 2
    /\ call.action = 208 /\ call.channel = 2

---------------------------------------------------------------------------
(* Properties of InelNetCover, checked under Spec *)

\* The step taken is the operation op (every step but Tick leaves a new event).
Stepped(op) == last' # last /\ last'.op = op

\* C5: open() and close() update the blind's state only after the command
\* returned true: the state is not touched before the client has answered,
\* and a command that returned false leaves it as it was before the call.
C5_StateOnlyAfterTrue ==
    [][/\ (Stepped("open") \/ Stepped("close")) =>
              BlindState(cover'[last'.ch]) = BlindState(cover[last'.ch])
       /\ (Stepped("directional_return") /\ ~last'.ok) =>
              BlindState(cover'[last'.ch]) = BlindState(cover[last'.ch])]_vars

\* C6: setPosition at 3 or more from the current position begins a movement
\* and schedules its stop only when the directional command returned true;
\* when it returned false no movement is recorded and no STOP is scheduled.
C6_MovementOnlyAfterTrue ==
    [][(Stepped("set_return") /\ ~last'.ok) =>
          /\ cover' = cover
          /\ timers' = timers
          /\ ~\E t \in tasks' : t.kind = "send_stop" /\ t.id = last'.id]_vars

\* C7: a completion whose movement was stopped or superseded before it fires
\* is a no-op: it changes neither the stored position nor a movement field,
\* also when a newer movement is in flight.
C7_StaleCompletionNoOp ==
    [][(/\ Stepped("complete")
        /\ ~(cover[last'.ch].is_moving /\ cover[last'.ch].move_id = last'.id))
          => cover' = cover]_vars

\* C8: the scheduled stop of a setPosition superseded by a newer setPosition
\* sends no STOP and changes no state when it fires, whatever the target of
\* the newer call, the same target included.
C8_StaleStopNoOp ==
    [][((Stepped("send_stop") \/ Stepped("send_stop_skip"))
            /\ cover[last'.ch].move_id # last'.id)
          => /\ last'.cmd = 0
             /\ cover' = cover
             /\ ~\E t \in tasks' : t.id = last'.id]_vars

\* The intent id is the latest issued on channel ch, and the movement
\* recorded last is the one it started.
NotSuperseded(ch, id) == cover[ch].latest = id /\ cover[ch].move_id = id

\* C9: when the duration of a setPosition that was not superseded has
\* elapsed, a STOP is issued and the position settles at the target with the
\* blind IDLE, whichever of the completion and the scheduled stop runs first.
C9_StopIssuedAtTarget ==
    [][/\ ((Stepped("send_stop") \/ Stepped("send_stop_skip"))
              /\ NotSuperseded(last'.ch, last'.id))
          => last'.cmd = ACTION_STOP
       /\ (Stepped("send_stop_return") /\ NotSuperseded(last'.ch, last'.id))
          => \E t \in tasks : /\ t.id = last'.id
                              /\ cover'[t.ch].position = t.position
                              /\ ~cover'[t.ch].is_moving]_vars

\* C10: setPosition within 3 of the projected position issues no command and
\* causes no state transition: the state after the call is the state before.
C10_CloseEnoughNoOp ==
    [][Stepped("set_close_enough") =>
          /\ last'.cmd = 0
          /\ tasks' = tasks /\ timers' = timers
          /\ BlindState(cover'[last'.ch]) = BlindState(cover[last'.ch])]_vars


\* The step taken applies _start_movement: the return of an open() or close()
\* whose command gave true, or the return of a setPosition.
StartsMovement ==
    (Stepped("directional_return") /\ last'.ok) \/ Stepped("set_return")

\* C11: _start_movement is only ever applied to an IDLE blind, whose stored
\* position is the projection frozen by the intent's own _stop_movement, also
\* when two intents on the channel interleave at the await of the command.
C11_StartOnlyOnFrozenIdle ==
    [][StartsMovement => ~cover[last'.ch].is_moving]_vars

\* C12: an open() at position 100 or a close() at position 0, whose movement
\* has duration 0, completes at once: when the intent has returned the blind
\* is IDLE at the same position and neither opening nor closing.
C12_ZeroDurationCompletesAtOnce ==
    [][\A t \in tasks :
         (/\ Stepped("directional_return") /\ last'.ok /\ t.id = last'.id
          /\ movement_duration(cover[t.ch], t.direction, None,
                               travel_time(t.ch)) = 0)
         => /\ ~cover'[t.ch].is_moving
            /\ cover'[t.ch].position = cover[t.ch].position
            /\ ~is_opening(cover'[t.ch]) /\ ~is_closing(cover'[t.ch])]_vars

---------------------------------------------------------------------------
(* Properties of the position estimate, checked under SpecProjection *)

\* C13: the projection of a movement with a target is the start position at
\* the start time and the target once abs(target - start) / 100 * travel_time
\* has elapsed, for every start, target and travel time, in both directions.
C13_TargetedProjectionEndpoints ==
    \A ch \in devices :
       LET c == cover[ch]
           tt == travel_time(ch)
           arrival == c.move_start_time + Abs(c.move_target - c.move_start_position) * tt
       IN  (c.is_moving /\ c.move_target # None) =>
              /\ calculate_current_position(c, tt, c.move_start_time)
                    = c.move_start_position
              /\ calculate_current_position(c, tt, arrival) = c.move_target

C13_Witness ==
    \E ch \in devices :
       LET c == cover[ch] IN
       /\ c.is_moving /\ c.move_direction = "up"
       /\ c.move_start_position = 20 /\ c.move_target = 73
       /\ Now - c.move_start_time = 53 * travel_time(ch)
       /\ calculate_current_position(c, travel_time(ch), Now) = 73

\* C16: the projection never leaves [0, 100], whatever time has elapsed,
\* longer than the movement's duration included, for every start position
\* and target in [0, 100], in both directions, with or without a target.
C16_ProjectionWithinRange ==
    \A ch \in devices :
       calculate_current_position(cover[ch], travel_time(ch), Now) \in 0..100

C16_Witness ==
    \E ch \in devices :
       LET c == cover[ch] IN
       /\ c.is_moving /\ c.move_direction = "down"
       /\ c.move_start_position = 90 /\ c.move_target = 10
       /\ Now - c.move_start_time > 80 * travel_time(ch)
       /\ calculate_current_position(c, travel_time(ch), Now) = 10

\* C19: _stop_movement on a MOVING blind makes it IDLE with the position
\* projected at that moment and clears the start time, the direction and the
\* target; run again with no _start_movement in between, it leaves the
\* position unchanged.
C19_StopFreezesProjection ==
    [][Stepped("stop_movement") =>
         LET c == cover[last'.ch]
             d == cover'[last'.ch]
         IN  /\ c.is_moving =>
                   /\ ~d.is_moving
                   /\ d.position = calculate_current_position(
                                       c, travel_time(last'.ch), Now)
                   /\ d.move_start_time = NoTime
                   /\ d.move_direction = "none" /\ d.move_target = None
             /\ ~c.is_moving => d = c]_vars

C19_Witness ==
    \E ch \in devices :
       /\ last.op = "stop_movement" /\ last.ch = ch /\ ~last.was_moving
       /\ ~cover[ch].is_moving /\ travel_time(ch) = 20
       /\ cover[ch].move_start_position = 20 /\ cover[ch].position = 32

\* The movement recorded is one that _start_movement is called with: "up"
\* toward a target above the start or toward none, "down" toward a target
\* below it or toward none (async_set_cover_position: direction = "up" if
\* position > current else "down").
DirectionFitsTarget(c) ==
    \/ c.move_target = None
    \/ c.move_direction = "up" /\ c.move_target >= c.move_start_position
    \/ c.move_direction = "down" /\ c.move_target <= c.move_start_position

\* The position at which the movement recorded in c ends
EndPoint(c) ==
    IF c.move_target # None THEN c.move_target
    ELSE IF c.move_direction = "up" THEN 100 ELSE 0

\* Lapses of time over which two projections are compared
Lapses == {1, 7, TickStep, 3 * TickStep, 100 * DEFAULT_TRAVEL_TIME}

---------------------------------------------------------------------------
(* Properties of the estimator within the intents, checked under Spec *)

\* C14: a movement without target is projected over travel_time * remaining
\* distance / 100: the projection is 100 (up) or 0 (down) at the moment the
\* scheduled completion fires, and the completion leaves the position that
\* was read just before it.
C14_CompletionKeepsProjection ==
    [][LET c == cover[last'.ch]
           before == current_cover_position(c, travel_time(last'.ch), Now)
       IN  (/\ Stepped("complete")
            /\ c.is_moving /\ c.move_id = last'.id /\ c.move_target = None)
           => /\ before = IF c.move_direction = "up" THEN 100 ELSE 0
              /\ cover'[last'.ch].position = before]_vars

\* The movement recorded for c is that of an open() from position 50,
\* `age` seconds old.
OpenedFrom50(c, age) ==
    /\ c.is_moving /\ c.move_direction = "up" /\ c.move_target = None
    /\ c.move_start_position = 50
    /\ Now - c.move_start_time = 100 * age

\* C15: with travel_time 20 s and the blind IDLE at 50, after an open() that
\* succeeded at time t the position read at t + 10 s is about 75, also when
\* read after a step taken at that instant, and the movement ends no later
\* than t + 20 s, with position 100 and the blind IDLE.
C15_OpenFrom50Scenario ==
    [][\A ch \in devices :
         LET c == cover[ch]
             tt == travel_time(ch)
         IN  /\ (tt = 20 /\ OpenedFrom50(c, 10)) =>
                   /\ current_cover_position(c, tt, Now) \in 74..76
                   /\ (Stepped("complete") /\ last'.ch = ch) =>
                         current_cover_position(cover'[ch], tt, Now) \in 74..76
             /\ (/\ tt = 20 /\ \E age \in 0..20 : OpenedFrom50(c, age)
                 /\ Stepped("complete") /\ last'.ch = ch /\ last'.id = c.move_id) =>
                   cover'[ch].position = 100 /\ ~cover'[ch].is_moving]_vars

\* C17: in every reachable state the position reported is an integer in
\* [0, 100], is_opening and is_closing are never both true, and each is true
\* only while the blind is MOVING in its direction.
C17_ReadingsValid ==
    \A ch \in devices :
       LET c == cover[ch] IN
       /\ current_cover_position(c, travel_time(ch), Now) \in 0..100
       /\ ~(is_opening(c) /\ is_closing(c))
       /\ is_opening(c) => (c.is_moving /\ c.move_direction = "up")
       /\ is_closing(c) => (c.is_moving /\ c.move_direction = "down")

C17_Witness ==
    \E ch \in devices :
       LET c == cover[ch] IN
       /\ is_opening(c) /\ ~is_closing(c) /\ c.move_target = 80
       /\ current_cover_position(c, travel_time(ch), Now) = 62
       /\ nintents = 2

\* C18: is_closed is true if and only if the position that
\* current_cover_position reports, projected from the elapsed time while the
\* blind is MOVING, is at most 2, whether the blind is IDLE or MOVING.
C18_ClosedIffProjectionLow ==
    \A ch \in devices :
       is_closed(cover[ch])
          <=> current_cover_position(cover[ch], travel_time(ch), Now) <= 2

\* C20: _start_movement(direction, target) on an IDLE blind makes it MOVING,
\* records the present time as start time, the stored position as start
\* position, the direction and the target (none for open and close), leaves
\* the stored position unchanged and writes the state at once.
C20_StartRecordsMovement ==
    [][\A t \in tasks :
         (StartsMovement /\ t.id = last'.id /\ ~cover[t.ch].is_moving) =>
            LET c == cover[t.ch]
                d == cover'[t.ch]
            IN  /\ d.is_moving
                /\ d.move_start_time = Now
                /\ d.move_start_position = c.position
                /\ d.move_direction = t.direction
                /\ d.move_target = t.position
                /\ t.kind \in {"open", "close"} => d.move_target = None
                /\ d.position = c.position
                /\ last'.wrote]_vars

C20_Witness ==
    \E ch \in devices :
       /\ last.op = "set_return" /\ last.ch = ch /\ ~last.was_moving /\ last.wrote
       /\ cover[ch].is_moving /\ cover[ch].move_start_time = Now
       /\ cover[ch].position = 50 /\ cover[ch].move_start_position = 50
       /\ cover[ch].move_direction = "up" /\ cover[ch].move_target = 80

\* C21: when the scheduled completion of the movement in flight fires, the
\* blind becomes IDLE with its position at the target if the movement has
\* one, else at 100 going up or 0 going down, and the start time, the
\* direction and the target are cleared.
C21_CompletionSettlesMovement ==
    [][LET c == cover[last'.ch]
           d == cover'[last'.ch]
       IN  (Stepped("complete") /\ c.is_moving /\ c.move_id = last'.id) =>
              /\ ~d.is_moving
              /\ d.position = IF c.move_target # None THEN c.move_target
                              ELSE IF c.move_direction = "up" THEN 100 ELSE 0
              /\ d.move_start_time = NoTime
              /\ d.move_direction = "none" /\ d.move_target = None]_vars

C21_Witness ==
    \E ch \in devices :
       /\ last.op = "complete" /\ last.ch = ch /\ last.was_moving
       /\ cover[ch].move_id = last.id
       /\ ~cover[ch].is_moving /\ cover[ch].position = 80
       /\ cover[ch].move_start_position = 50

\* C22: setPosition(target) at 3 or more from the current position does, in
\* this order: freeze a movement in progress at its projection; hand UP to
\* the client if target > current, else DOWN; run _start_movement(direction,
\* target); schedule a STOP abs(target - current) / 100 * travel_time later.
C22_SetPositionOrder ==
    [][LET ch == last'.ch
           c == cover[ch]
           d == cover'[ch]
           tt == travel_time(ch)
           current == calculate_current_position(c, tt, Now)
       IN  /\ Stepped("set") =>
                 /\ ~d.is_moving /\ d.position = current
                 /\ \E t \in tasks' \ tasks :
                       /\ t.id = last'.id /\ t.kind = "set" /\ t.pc = "http"
                       /\ last'.cmd = IF t.position > current THEN ACTION_UP
                                      ELSE ACTION_DOWN
                       /\ t.direction = IF t.position > current THEN "up" ELSE "down"
                       /\ t.duration = Abs(t.position - current) * tt
                 /\ ~\E t \in tasks' : t.kind = "send_stop" /\ t.id = last'.id
                 /\ timers' = timers
           /\ Stepped("set_return") =>
                 \E t \in tasks :
                    /\ t.id = last'.id /\ t.kind = "set"
                    /\ d.is_moving /\ d.move_start_time = Now
                    /\ d.move_direction = t.direction /\ d.move_target = t.position
                    /\ \E u \in tasks' \ tasks :
                          /\ u.id = t.id /\ u.kind = "send_stop" /\ u.pc = "sleep"
                          /\ u.position = t.position
                          /\ u.due = Now + t.duration]_vars

C22_Witness ==
    \E ch \in devices :
       /\ last.op = "set_return" /\ last.ch = ch
       /\ cover[ch].is_moving /\ cover[ch].move_direction = "up"
       /\ cover[ch].move_start_position = 56 /\ cover[ch].move_target = 80
       /\ \E u \in tasks : /\ u.kind = "send_stop" /\ u.id = last.id
                           /\ u.due = Now + 24 * travel_time(ch)

\* C29: when the STOP command of a stop() intent returns false the blind's
\* state is left as it was: a MOVING blind stays MOVING with the same start
\* time, start position, direction and target, and its pending completion
\* stays scheduled; nothing is changed before the command has answered.
C29_FailedStopLeavesState ==
    [][((Stepped("stop_return") /\ ~last'.ok) \/ Stepped("stop")) =>
          /\ BlindState(cover'[last'.ch]) = BlindState(cover[last'.ch])
          /\ timers' = timers]_vars

C29_Witness ==
    \E ch \in devices :
       /\ last.op = "stop_return" /\ last.ch = ch /\ ~last.ok /\ last.was_moving
       /\ cover[ch].is_moving /\ cover[ch].move_target = 80
       /\ cover[ch].move_start_time < Now
       /\ \E tm \in timers : tm.ch = ch /\ tm.id = cover[ch].move_id

\* C30: in every reachable state the movement record agrees with the moving
\* flag: an IDLE blind has no start time, no direction and no target; a
\* MOVING blind has a start time and the direction "up" or "down".
C30_MovementRecordConsistent ==
    \A ch \in devices :
       LET c == cover[ch] IN
       /\ ~c.is_moving =>
             /\ c.move_start_time = NoTime
             /\ c.move_direction = "none" /\ c.move_target = None
       /\ c.is_moving =>
             /\ c.move_start_time # NoTime /\ c.move_start_time <= Now
             /\ c.move_direction \in {"up", "down"}

C30_Witness ==
    \E ch \in devices :
       /\ last.op = "set" /\ last.ch = ch /\ last.was_moving
       /\ ~cover[ch].is_moving /\ cover[ch].move_target = None
       /\ cover[ch].position # cover[ch].move_start_position

\* C32: a scheduled completion that fires while the blind is IDLE (its
\* movement was stopped or has completed, and no newer one is in flight)
\* changes nothing: position and movement fields stay as they were and no
\* state-changed notification is emitted.
C32_CompletionInIdleNoOp ==
    [][(Stepped("complete") /\ ~cover[last'.ch].is_moving) =>
          /\ BlindState(cover'[last'.ch]) = BlindState(cover[last'.ch])
          /\ ~last'.wrote]_vars

C32_Witness ==
    /\ last.op = "complete" /\ ~last.was_moving /\ ~last.wrote
    /\ ~cover[last.ch].is_moving /\ cover[last.ch].position = 62
    /\ timers = {}

\* C33: the scheduled stop of a setPosition(p) that fires when the blind is
\* IDLE, or MOVING without target (after open or close), or MOVING toward a
\* target other than p, sends no STOP command and changes neither the
\* position nor a movement field.
C33_ScheduledStopElsewhereNoOp ==
    [][\A t \in tasks :
         LET c == cover[t.ch] IN
         (/\ Stepped("send_stop") \/ Stepped("send_stop_skip")
          /\ t.id = last'.id /\ t.kind = "send_stop"
          /\ \/ ~c.is_moving
             \/ c.is_moving /\ c.move_target = None
             \/ c.is_moving /\ c.move_target # t.position)
         => /\ last'.cmd = 0
            /\ BlindState(cover'[t.ch]) = BlindState(c)
            /\ ~\E u \in tasks' : u.id = t.id]_vars

C33_Witness ==
    /\ last.op = "send_stop_skip" /\ last.was_moving /\ last.id = 1
    /\ cover[last.ch].is_moving /\ cover[last.ch].move_id = 2
    /\ cover[last.ch].move_target \in {0, 100}

\* C34: a scheduled stop that acts (the blind is MOVING toward its target)
\* records position = target only when its STOP command returned true: when
\* the STOP command fails, the state of the blind is left as it was and the
\* blind is not recorded as stopped at the target.
C34_StopRecordedOnlyIfDelivered ==
    [][(Stepped("send_stop_return") /\ ~last'.ok) =>
          BlindState(cover'[last'.ch]) = BlindState(cover[last'.ch])]_vars

\* C35: every operation that changes the state of a blind (the start of a
\* movement, the stop of a MOVING blind, the completion of the movement in
\* flight, a scheduled stop that acts) emits a state-changed notification
\* after the change, so that the state published is the state the operation
\* leaves; and the stop of an IDLE blind, a completion that fires in IDLE and
\* a setPosition within 3 of the position of an IDLE blind emit none.
C35_NotifiesExactlyOnChange ==
    [][LET ch == last'.ch
           c == cover[ch]
           d == cover'[ch]
       IN  /\ (last'.op # "tick" /\ BlindState(d) # BlindState(c)) =>
                  /\ last'.wrote
                  /\ last'.written = BlindState(d)
           /\ (/\ \/ Stepped("stop") \/ Stepped("stop_return")
                   \/ Stepped("complete") \/ Stepped("set_close_enough")
                /\ ~c.is_moving) =>
                  /\ ~last'.wrote
                  /\ BlindState(d) = BlindState(c)]_vars

C35_Witness ==
    /\ last.op = "send_stop_return" /\ last.was_moving /\ last.wrote
    /\ last.written = BlindState(cover[last.ch])
    /\ ~cover[last.ch].is_moving /\ cover[last.ch].position = 80
    /\ cover[last.ch].move_start_position = 50

---------------------------------------------------------------------------
(* Liveness of the estimator, checked under FairSpec *)

\* C27: every movement ends: from any state in which a blind is MOVING and
\* the caller issues no further intent, the blind eventually becomes IDLE,
\* whatever the start position (0 and 100 included), with or without target.
C27_EveryMovementEnds ==
    \A ch \in Channels :
       (ch \in devices /\ cover[ch].is_moving /\ nintents = MaxIntents)
          ~> (ch \in devices => ~cover[ch].is_moving)

---------------------------------------------------------------------------
(* Properties of two blinds side by side, checked under SpecTwo *)

\* C26: blinds are independent: an intent, a scheduled completion or a
\* scheduled stop on one channel leaves the position and the movement fields
\* of every other channel's blind unchanged, and the commands, tasks and
\* timers it gives rise to are for its own channel.
C26_BlindsIndependent ==
    [][(last' # last /\ last'.op # "tick") =>
          /\ \A other \in devices \ {last'.ch} :
                BlindState(cover'[other]) = BlindState(cover[other])
          /\ \A t \in (tasks' \ tasks) \cup (tasks \ tasks') : t.ch = last'.ch
          /\ \A tm \in (timers' \ timers) \cup (timers \ timers') :
                tm.ch = last'.ch]_vars

C26_Witness ==
    /\ last.op = "directional_return" /\ last.ok /\ last.ch = 2
    /\ cover[2].is_moving /\ cover[2].move_start_time = Now
    /\ cover[1].is_moving /\ cover[1].move_start_time < Now

---------------------------------------------------------------------------
(* Properties of the connectivity sensor, checked under SpecSensor *)

\* C23: the connectivity indicator starts online and is offline exactly when
\* the last three probes or more have failed in a row: one failed probe, or
\* two, leave it as it was; a successful probe sets the failure counter to 0
\* and the indicator online; offline implies a count of at least 3.
C23_ConnectivityDebounced ==
    /\ sensor.consecutive_failures = sensor.streak
    /\ sensor.is_on <=> sensor.streak < 3
    /\ ~sensor.is_on => sensor.consecutive_failures >= 3
    /\ (sensor.probes > 0 /\ probe.result) =>
          (sensor.is_on /\ sensor.consecutive_failures = 0)

C23_Witness ==
    /\ ~sensor.is_on /\ sensor.consecutive_failures = 3
    /\ sensor.probes = 5 /\ probe.outcome = "http500"

---------------------------------------------------------------------------
(* Properties of the config flows, checked under SpecConfig *)

\* C24: no sequence of config-flow steps (the devices of the initial flow,
\* add device, edit device) saves a device list in which two devices have
\* the same channel, so no two blinds are constructed for one channel.
C24_NoDuplicateChannelSaved ==
    LET covers == ConstructedCovers(config_entry) IN
    \A i, j \in 1..Len(covers) : i # j => covers[i] # covers[j]

---------------------------------------------------------------------------
(* Properties of async_setup_entry, checked under SpecSetup *)

\* C36: setting up an entry whose connection test fails returns failure and
\* registers nothing: no client and no device list is stored for the entry,
\* no blind is created and that call registers no service; on success the
\* entry's client, devices and host are stored before the platforms are set
\* up, and the blinds are those of the devices stored.
C36_FailedSetupRegistersNothing ==
    [][\A e \in Entries :
         LET s == hass.setup[e]
             t == hass'.setup[e]
         IN  /\ t.pc # "raised"
             /\ (s.pc = "probing" /\ t.pc # "probing") =>
                   /\ ~probe'.result =>
                         /\ t.pc = "returned" /\ ~t.result
                         /\ hass'.services = hass.services
                   /\ probe'.result =>
                         /\ t.pc = "forwarding"
                         /\ hass'.data[e] = [stored |-> TRUE, client |-> Host(e),
                                             devices |-> s.devices,
                                             host |-> Host(e)]
             /\ (t.pc = "returned" /\ ~t.result) =>
                   /\ ~hass'.data[e].stored
                   /\ hass'.entities[e] = << >>
                   /\ ~t.forwarded /\ ~t.registered
             /\ (~s.forwarded /\ t.forwarded) =>
                   /\ hass.data[e].stored
                   /\ hass'.entities[e] = hass.data[e].devices
             /\ (t.pc = "returned" /\ t.result) =>
                   /\ hass'.data[e].stored /\ t.forwarded /\ t.registered
                   /\ hass'.services]_vars

C36_Witness ==
    /\ hass.setup[1].pc = "returned" /\ ~hass.setup[1].result
    /\ hass.setup[1].devices = <<2, 1>>
    /\ ~hass.data[1].stored /\ hass.entities[1] = << >>
    /\ hass.setup[2].pc = "returned" /\ hass.setup[2].result
    /\ hass.data[2].stored /\ hass.entities[2] = <<1>> /\ hass.services

=======================================================================
